---- MODULE Spec2Model ----
(***************************************************************************)
(* SortedListWithKey (sortedcontainers/sortedlistwithkey.py): a mutable    *)
(* sequence kept sorted by a derived key, stored as (key, value) entries   *)
(* in a chunked SortedList engine.  Indices (pos, idx, ranks) are 0-based  *)
(* as in the Python source; TLA+ sequences are 1-based, hence the "+ 1"    *)
(* at every subscript.                                                     *)
(***************************************************************************)
EXTENDS Integers, Sequences, FiniteSets

\* ------------------------------------------------------------------ bounds
MaxVal == 3
MaxLen == 3
MaxIter == 2
Load == 2
MaxHeld == 2

Values == 0 .. MaxVal

\* The chunk-size targets (load) a collection may be constructed with.
Loads == {Load, Load + 1}

\* The key functions a collection may be constructed with: the default
\* identity, and one under which the largest value sorts first and all the
\* other values share one key.
KeyFns ==
    { [v \in Values |-> v],
      [v \in Values |-> IF v = MaxVal THEN 0 ELSE 1] }

Min(a, b) == IF a < b THEN a ELSE b

\* ----------------------------------------------------------------- entries
Pair(key, value) == [kind |-> "Pair", key |-> key, value |-> value]

Tuple(key, value) == [kind |-> "tuple", key |-> key, value |-> value]

PairCtor(value_orderable) == IF value_orderable THEN "tuple" ELSE "Pair"

MakePair(ctor, key, value) ==
    IF ctor = "tuple" THEN Tuple(key, value) ELSE Pair(key, value)

Pair_lt(this, that) == this.key < that.key

Pair_eq(this, that) == this.key = that.key

tuple_lt(this, that) ==
    \/ this.key < that.key
    \/ this.key = that.key /\ this.value < that.value

tuple_eq(this, that) == this.key = that.key /\ this.value = that.value

\* a < b and a == b on stored entries, dispatched on the entry's own type
EntryLt(a, b) == IF a.kind = "Pair" THEN Pair_lt(a, b) ELSE tuple_lt(a, b)

EntryEq(a, b) == IF a.kind = "Pair" THEN Pair_eq(a, b) ELSE tuple_eq(a, b)

\* ------------------------------------------------------------ bisect module
RECURSIVE bisect_left_loop(_, _, _, _)
bisect_left_loop(a, x, lo, hi) ==
    IF lo < hi
    THEN LET mid == (lo + hi) \div 2
         IN  IF EntryLt(a[mid + 1], x)
             THEN bisect_left_loop(a, x, mid + 1, hi)
             ELSE bisect_left_loop(a, x, lo, mid)
    ELSE lo

std_bisect_left(a, x) == bisect_left_loop(a, x, 0, Len(a))

\* -------------------------------------------------- sequences and layouts
RECURSIVE Flatten(_)
Flatten(lists) ==
    IF lists = <<>> THEN <<>> ELSE Head(lists) \o Flatten(Tail(lists))

ValuesOf(entries) == [i \in 1 .. Len(entries) |-> entries[i].value]

InsertAt(s, i, e) == SubSeq(s, 1, i) \o <<e>> \o SubSeq(s, i + 1, Len(s))

RemoveAt(s, i) == SubSeq(s, 1, i) \o SubSeq(s, i + 2, Len(s))

IsSorted(s) == \A i \in 1 .. Len(s) - 1 : ~EntryLt(s[i + 1], s[i])

\* Every split of a flat sorted sequence into non-empty chunks of at most
\* load entries: the layouts the engine's rebalancing may leave behind.
RECURSIVE Layouts(_, _)
Layouts(flat, load) ==
    IF flat = <<>>
    THEN {<<>>}
    ELSE UNION { { <<SubSeq(flat, 1, n)>> \o rest :
                     rest \in Layouts(SubSeq(flat, n + 1, Len(flat)), load) } :
                 n \in 1 .. Min(load, Len(flat)) }

\* The chunk-maximum index of a layout; an empty engine holds either None
\* or an empty list.
NoneMaxes == [is_None |-> TRUE, items |-> <<>>]

ListMaxes(lists) ==
    [is_None |-> FALSE,
     items |-> [i \in 1 .. Len(lists) |-> lists[i][Len(lists[i])]]]

MaxesOf(lists) ==
    IF lists = <<>> THEN {NoneMaxes, ListMaxes(<<>>)} ELSE {ListMaxes(lists)}

\* ------------------------------------------------------------------------
\* The segmented engine (sortedlist.SortedList), by the contract the
\* collection requires of it.  Operations work on the flat entry sequence;
\* the chunk layout after a structural change is any element of Layouts.
\* An engine outcome is [raised, value, same, flats]: the error raised (or
\* "none"), the returned value, whether the engine was left untouched, and
\* otherwise the flat sequences the change may produce.
Unchanged(raised, value) ==
    [raised |-> raised, value |-> value, same |-> TRUE, flats |-> {}]

Changed(value, flats) ==
    [raised |-> "none", value |-> value, same |-> FALSE, flats |-> flats]

\* positions at which e may be inserted keeping flat sorted
SL_add(flat, e) ==
    { InsertAt(flat, i, e) :
        i \in { j \in 0 .. Len(flat) :
                  /\ j = 0 \/ ~EntryLt(e, flat[j])
                  /\ j = Len(flat) \/ ~EntryLt(flat[j + 1], e) } }

RECURSIVE SL_update(_, _)
SL_update(flat, entries) ==
    IF entries = <<>>
    THEN {flat}
    ELSE UNION { SL_update(f, Tail(entries)) : f \in SL_add(flat, Head(entries)) }

SL_append(flat, e) ==
    IF flat # <<>> /\ EntryLt(e, flat[Len(flat)])
    THEN Unchanged("ValueError", 0)
    ELSE Changed(0, {Append(flat, e)})

SL_extend(flat, entries) ==
    IF ~IsSorted(flat \o entries)
    THEN Unchanged("ValueError", 0)
    ELSE Changed(0, {flat \o entries})

\* list.insert index rule: a negative index counts from the end, then clamp
SL_insert(flat, at, e) ==
    LET n == Len(flat)
        i1 == IF at < 0 THEN at + n ELSE at
        i == IF i1 < 0 THEN 0 ELSE IF i1 > n THEN n ELSE i1
    IN  IF \/ i > 0 /\ EntryLt(e, flat[i])
           \/ i < n /\ EntryLt(flat[i + 1], e)
        THEN Unchanged("ValueError", 0)
        ELSE Changed(0, {InsertAt(flat, i, e)})

\* a single position: negative counts from the end, else out of range
NormIndex(n, at) == IF at < 0 THEN at + n ELSE at

SL_setitem(flat, at, e) ==
    LET n == Len(flat)
        i == NormIndex(n, at)
    IN  IF i < 0 \/ i >= n
        THEN Unchanged("IndexError", 0)
        ELSE IF \/ i > 0 /\ EntryLt(e, flat[i])
                \/ i < n - 1 /\ EntryLt(flat[i + 2], e)
        THEN Unchanged("ValueError", 0)
        ELSE Changed(0, {[flat EXCEPT ![i + 1] = e]})

\* replace the range [start, stop) by entries
SL_setslice(flat, start, stop, entries) ==
    LET new == SubSeq(flat, 1, start) \o entries \o SubSeq(flat, stop + 1, Len(flat))
    IN  IF ~IsSorted(new)
        THEN Unchanged("ValueError", 0)
        ELSE Changed(0, {new})

SL_delitem(flat, at) ==
    LET n == Len(flat)
        i == NormIndex(n, at)
    IN  IF i < 0 \/ i >= n
        THEN Unchanged("IndexError", 0)
        ELSE Changed(0, {RemoveAt(flat, i)})

SL_delslice(flat, start, stop) ==
    Changed(0, {SubSeq(flat, 1, start) \o SubSeq(flat, stop + 1, Len(flat))})

SL_pop(flat, at) ==
    LET n == Len(flat)
        i == NormIndex(n, at)
    IN  IF i < 0 \/ i >= n
        THEN Unchanged("IndexError", 0)
        ELSE Changed(flat[i + 1], {RemoveAt(flat, i)})

SL_clear == Changed(0, {<<>>})

\* value-based operations of the engine, used with fully ordered entries
Matches(flat, e) == { i \in 1 .. Len(flat) : EntryEq(flat[i], e) }

SetMin(S) == CHOOSE x \in S : \A y \in S : x <= y

SL_contains(flat, e) == Matches(flat, e) # {}

SL_count(flat, e) == Cardinality(Matches(flat, e))

SL_discard(flat, e) ==
    IF Matches(flat, e) = {}
    THEN Unchanged("none", 0)
    ELSE Changed(0, {RemoveAt(flat, SetMin(Matches(flat, e)) - 1)})

SL_remove(flat, e) ==
    IF Matches(flat, e) = {}
    THEN Unchanged("ValueError", 0)
    ELSE Changed(0, {RemoveAt(flat, SetMin(Matches(flat, e)) - 1)})

\* an optional integer argument: <<>> is None, <<n>> is n
None == <<>>

Some(n) == <<n>>

SL_index(flat, e, start, stop) ==
    LET n == Len(flat)
        a1 == IF start = None THEN 0 ELSE start[1]
        a2 == IF a1 < 0 THEN a1 + n ELSE a1
        a == IF a2 < 0 THEN 0 ELSE a2
        b1 == IF stop = None THEN n ELSE stop[1]
        b2 == IF b1 < 0 THEN b1 + n ELSE b1
        b == IF b2 > n THEN n ELSE b2
        hits == { i \in Matches(flat, e) : a <= i - 1 /\ i - 1 < b }
    IN  IF hits = {} THEN Unchanged("ValueError", 0)
        ELSE Unchanged("none", SetMin(hits) - 1)

\* bisect_left: the rank of the first entry that is not less than e;
\* bisect_right: the rank just after the last entry that e is not less than
SL_bisect_left(flat, e) ==
    Cardinality({ i \in 1 .. Len(flat) : EntryLt(flat[i], e) })

SL_bisect_right(flat, e) ==
    Cardinality({ i \in 1 .. Len(flat) : ~EntryLt(e, flat[i]) })

\* rank of the entry at (pos, idx)
RECURSIVE SL_loc(_, _, _)
SL_loc(lists, pos, idx) ==
    IF pos = 0 THEN idx ELSE Len(lists[pos]) + SL_loc(lists, pos - 1, idx)

\* delete the entry at (pos, idx)
SL_delete(lists, pos, idx) ==
    Changed(0, {RemoveAt(Flatten(lists), SL_loc(lists, pos, idx))})

\* ------------------------------------------------------------------------
\* SortedListWithKey.  `self` is the record of the collection's fields:
\* key (the key function), ordered, pair (the entry constructor), list (the
\* engine object) and the engine's load, lists, maxes and len.
\* Faulty variant: the entry is keyed by the value itself, the key function unused
Entry_unkeyed(self, value) == MakePair(self.pair, value, value)

Entry(self, value) == MakePair(self.pair, self.key[value], value)

Entries(self, iterable) ==
    [i \in 1 .. Len(iterable) |-> Entry(self, iterable[i])]

as_list(self) == ValuesOf(Flatten(self.lists))

clear(self) == SL_clear

\* Faulty variant: the entry is built with key and value in each other's place
add_swapped(self, value) ==
    Changed(0, SL_add(Flatten(self.lists),
                      MakePair(self.pair, value, self.key[value])))

add(self, value) == Changed(0, SL_add(Flatten(self.lists), Entry(self, value)))

update(self, iterable) ==
    Changed(0, SL_update(Flatten(self.lists), Entries(self, iterable)))

\* the entry read by _lists[pos][idx], or an IndexError
InRange(lists, pos, idx) ==
    /\ 0 <= pos /\ pos < Len(lists)
    /\ 0 <= idx /\ idx < Len(lists[pos + 1])

\* Faulty variant: the scan gives up at the end of the first chunk
RECURSIVE contains_loop_one_chunk(_, _, _, _, _, _)
contains_loop_one_chunk(lists, k, value, pos, idx, len_sublist) ==
    IF ~InRange(lists, pos, idx)
    THEN Unchanged("IndexError", FALSE)
    ELSE LET pair == lists[pos + 1][idx + 1]
         IN  IF k # pair.key THEN Unchanged("none", FALSE)
             ELSE IF value = pair.value THEN Unchanged("none", TRUE)
             ELSE IF idx + 1 = len_sublist THEN Unchanged("none", FALSE)
             ELSE contains_loop_one_chunk(lists, k, value, pos, idx + 1,
                                          len_sublist)

RECURSIVE contains_loop(_, _, _, _, _, _)
contains_loop(lists, k, value, pos, idx, len_sublist) ==
    IF ~InRange(lists, pos, idx)
    THEN Unchanged("IndexError", FALSE)
    ELSE LET pair == lists[pos + 1][idx + 1]
         IN  IF k # pair.key THEN Unchanged("none", FALSE)
             ELSE IF value = pair.value THEN Unchanged("none", TRUE)
             ELSE IF idx + 1 = len_sublist
             THEN IF pos + 1 = Len(lists)
                  THEN Unchanged("none", FALSE)
                  ELSE contains_loop(lists, k, value, pos + 1, 0,
                                     Len(lists[pos + 2]))
             ELSE contains_loop(lists, k, value, pos, idx + 1, len_sublist)

contains(self, value) ==
    LET k == self.key[value]
        p == MakePair(self.pair, k, value)
    IN  IF self.ordered
        THEN Unchanged("none", SL_contains(Flatten(self.lists), p))
        ELSE IF self.maxes.is_None THEN Unchanged("none", FALSE)
        ELSE LET pos == std_bisect_left(self.maxes.items, p)
             IN  IF pos = Len(self.maxes.items)
                 THEN Unchanged("none", FALSE)
                 ELSE contains_loop(self.lists, k, value, pos,
                                    std_bisect_left(self.lists[pos + 1], p),
                                    Len(self.lists[pos + 1]))

\* Faulty variant: the first entry of the equal-key run is deleted, its value
\* not compared
discard_loop_by_key(lists, k, value, pos, idx, len_sublist) ==
    IF ~InRange(lists, pos, idx)
    THEN Unchanged("IndexError", 0)
    ELSE IF k # lists[pos + 1][idx + 1].key THEN Unchanged("none", 0)
    ELSE SL_delete(lists, pos, idx)

RECURSIVE discard_loop(_, _, _, _, _, _)
discard_loop(lists, k, value, pos, idx, len_sublist) ==
    IF ~InRange(lists, pos, idx)
    THEN Unchanged("IndexError", 0)
    ELSE LET pair == lists[pos + 1][idx + 1]
         IN  IF k # pair.key THEN Unchanged("none", 0)
             ELSE IF value = pair.value THEN SL_delete(lists, pos, idx)
             ELSE IF idx + 1 = len_sublist
             THEN IF pos + 1 = Len(lists)
                  THEN Unchanged("none", 0)
                  ELSE discard_loop(lists, k, value, pos + 1, 0,
                                    Len(lists[pos + 2]))
             ELSE discard_loop(lists, k, value, pos, idx + 1, len_sublist)

\* Faulty variant: the key-only collection, too, hands the entry to the
\* engine, which compares Pair entries by key alone
discard_delegating(self, value) ==
    SL_discard(Flatten(self.lists), Entry(self, value))

discard(self, value) ==
    LET k == self.key[value]
        p == MakePair(self.pair, k, value)
    IN  IF self.ordered
        THEN SL_discard(Flatten(self.lists), p)
        ELSE IF self.maxes.is_None THEN Unchanged("none", 0)
        ELSE LET pos == std_bisect_left(self.maxes.items, p)
             IN  IF pos = Len(self.maxes.items)
                 THEN Unchanged("none", 0)
                 ELSE discard_loop(self.lists, k, value, pos,
                                   std_bisect_left(self.lists[pos + 1], p),
                                   Len(self.lists[pos + 1]))

\* Faulty variant: the first entry of the equal-key run is deleted, its value
\* not compared
remove_loop_by_key(lists, k, value, pos, idx, len_sublist) ==
    IF ~InRange(lists, pos, idx)
    THEN Unchanged("IndexError", 0)
    ELSE IF k # lists[pos + 1][idx + 1].key THEN Unchanged("ValueError", 0)
    ELSE SL_delete(lists, pos, idx)

RECURSIVE remove_loop(_, _, _, _, _, _)
remove_loop(lists, k, value, pos, idx, len_sublist) ==
    IF ~InRange(lists, pos, idx)
    THEN Unchanged("IndexError", 0)
    ELSE LET pair == lists[pos + 1][idx + 1]
         IN  IF k # pair.key THEN Unchanged("ValueError", 0)
             ELSE IF value = pair.value THEN SL_delete(lists, pos, idx)
             ELSE IF idx + 1 = len_sublist
             THEN IF pos + 1 = Len(lists)
                  THEN Unchanged("ValueError", 0)
                  ELSE remove_loop(lists, k, value, pos + 1, 0,
                                   Len(lists[pos + 2]))
             ELSE remove_loop(lists, k, value, pos, idx + 1, len_sublist)

\* Faulty variant: a missing value is passed over in silence, as discard does
remove_silent(self, value) == discard(self, value)

remove(self, value) ==
    LET k == self.key[value]
        p == MakePair(self.pair, k, value)
    IN  IF self.ordered
        THEN SL_remove(Flatten(self.lists), p)
        ELSE IF self.maxes.is_None THEN Unchanged("ValueError", 0)
        ELSE LET pos == std_bisect_left(self.maxes.items, p)
             IN  IF pos = Len(self.maxes.items)
                 THEN Unchanged("ValueError", 0)
                 ELSE remove_loop(self.lists, k, value, pos,
                                  std_bisect_left(self.lists[pos + 1], p),
                                  Len(self.lists[pos + 1]))

\* Faulty variant: every entry of the equal-key run is counted
RECURSIVE count_loop_by_key(_, _, _, _, _, _, _)
count_loop_by_key(lists, k, value, pos, idx, len_sublist, total) ==
    IF ~InRange(lists, pos, idx)
    THEN Unchanged("IndexError", 0)
    ELSE IF k # lists[pos + 1][idx + 1].key THEN Unchanged("none", total)
    ELSE IF idx + 1 = len_sublist
    THEN IF pos + 1 = Len(lists)
         THEN Unchanged("none", total + 1)
         ELSE count_loop_by_key(lists, k, value, pos + 1, 0,
                                Len(lists[pos + 2]), total + 1)
    ELSE count_loop_by_key(lists, k, value, pos, idx + 1, len_sublist,
                           total + 1)

\* Faulty variant: the test for the last chunk is missing, so the scan moves
\* on past it
RECURSIVE count_loop_past_end(_, _, _, _, _, _, _)
count_loop_past_end(lists, k, value, pos, idx, len_sublist, total) ==
    IF ~InRange(lists, pos, idx)
    THEN Unchanged("IndexError", 0)
    ELSE LET pair == lists[pos + 1][idx + 1]
             total1 == IF value = pair.value THEN total + 1 ELSE total
         IN  IF k # pair.key THEN Unchanged("none", total)
             ELSE IF idx + 1 = len_sublist
             THEN count_loop_past_end(lists, k, value, pos + 1, 0,
                                      IF pos + 1 = Len(lists) THEN 0
                                      ELSE Len(lists[pos + 2]), total1)
             ELSE count_loop_past_end(lists, k, value, pos, idx + 1,
                                      len_sublist, total1)

RECURSIVE count_loop(_, _, _, _, _, _, _)
count_loop(lists, k, value, pos, idx, len_sublist, total) ==
    IF ~InRange(lists, pos, idx)
    THEN Unchanged("IndexError", 0)
    ELSE LET pair == lists[pos + 1][idx + 1]
             total1 == IF value = pair.value THEN total + 1 ELSE total
         IN  IF k # pair.key THEN Unchanged("none", total)
             ELSE IF idx + 1 = len_sublist
             THEN IF pos + 1 = Len(lists)
                  THEN Unchanged("none", total1)
                  ELSE count_loop(lists, k, value, pos + 1, 0,
                                  Len(lists[pos + 2]), total1)
             ELSE count_loop(lists, k, value, pos, idx + 1, len_sublist, total1)

count(self, value) ==
    LET k == self.key[value]
        p == MakePair(self.pair, k, value)
    IN  IF self.ordered
        THEN Unchanged("none", SL_count(Flatten(self.lists), p))
        ELSE IF self.maxes.is_None THEN Unchanged("none", 0)
        ELSE LET pos == std_bisect_left(self.maxes.items, p)
             IN  IF pos = Len(self.maxes.items)
                 THEN Unchanged("none", 0)
                 ELSE count_loop(self.lists, k, value, pos,
                                 std_bisect_left(self.lists[pos + 1], p),
                                 Len(self.lists[pos + 1]), 0)

\* Faulty variant: a match outside the window ends the search
RECURSIVE index_loop_first_match(_, _, _, _, _, _, _, _)
index_loop_first_match(lists, k, value, start, stop, pos, idx, len_sublist) ==
    IF ~InRange(lists, pos, idx)
    THEN Unchanged("IndexError", 0)
    ELSE LET pair == lists[pos + 1][idx + 1]
             loc == SL_loc(lists, pos, idx)
         IN  IF k # pair.key THEN Unchanged("ValueError", 0)
             ELSE IF value = pair.value
             THEN IF start <= loc /\ loc < stop
                  THEN Unchanged("none", loc)
                  ELSE Unchanged("ValueError", 0)
             ELSE IF idx + 1 = len_sublist
             THEN IF pos + 1 = Len(lists)
                  THEN Unchanged("ValueError", 0)
                  ELSE index_loop_first_match(lists, k, value, start, stop,
                                              pos + 1, 0, Len(lists[pos + 2]))
             ELSE index_loop_first_match(lists, k, value, start, stop, pos,
                                         idx + 1, len_sublist)

RECURSIVE index_loop(_, _, _, _, _, _, _, _)
index_loop(lists, k, value, start, stop, pos, idx, len_sublist) ==
    IF ~InRange(lists, pos, idx)
    THEN Unchanged("IndexError", 0)
    ELSE LET pair == lists[pos + 1][idx + 1]
             loc == SL_loc(lists, pos, idx)
         IN  IF k # pair.key THEN Unchanged("ValueError", 0)
             ELSE IF value = pair.value /\ start <= loc /\ loc < stop
             THEN Unchanged("none", loc)
             ELSE IF idx + 1 = len_sublist
             THEN IF pos + 1 = Len(lists)
                  THEN Unchanged("ValueError", 0)
                  ELSE index_loop(lists, k, value, start, stop, pos + 1, 0,
                                  Len(lists[pos + 2]))
             ELSE index_loop(lists, k, value, start, stop, pos, idx + 1,
                             len_sublist)

\* the window [start, stop) as index() normalises it
index_start(len, start) ==
    LET s1 == IF start = None THEN 0 ELSE start[1]
        s2 == IF s1 < 0 THEN s1 + len ELSE s1
    IN  IF s2 < 0 THEN 0 ELSE s2

index_stop(len, stop) ==
    LET s1 == IF stop = None THEN len ELSE stop[1]
        s2 == IF s1 < 0 THEN s1 + len ELSE s1
    IN  IF s2 > len THEN len ELSE s2

index(self, value, start, stop) ==
    LET k == self.key[value]
        p == MakePair(self.pair, k, value)
        a == index_start(self.len, start)
        b == index_stop(self.len, stop)
    IN  IF self.ordered
        THEN SL_index(Flatten(self.lists), p, start, stop)
        ELSE IF b <= a THEN Unchanged("ValueError", 0)
        ELSE IF self.maxes.is_None THEN Unchanged("TypeError", 0)
        ELSE LET pos == std_bisect_left(self.maxes.items, p)
             IN  IF pos = Len(self.maxes.items)
                 THEN Unchanged("ValueError", 0)
                 ELSE index_loop(self.lists, k, value, a, b, pos,
                                 std_bisect_left(self.lists[pos + 1], p),
                                 Len(self.lists[pos + 1]))

delitem(self, i) == SL_delitem(Flatten(self.lists), i)

delslice(self, start, stop) == SL_delslice(Flatten(self.lists), start, stop)

\* Faulty variant: the replaced entry's key is kept for the new value
setitem_stale_key(self, i, value) ==
    LET flat == Flatten(self.lists)
        n == NormIndex(Len(flat), i)
    IN  IF n < 0 \/ n >= Len(flat)
        THEN SL_setitem(flat, i, Entry(self, value))
        ELSE SL_setitem(flat, i, MakePair(self.pair, flat[n + 1].key, value))

setitem(self, i, value) ==
    SL_setitem(Flatten(self.lists), i, Entry(self, value))

setslice(self, start, stop, iterable) ==
    SL_setslice(Flatten(self.lists), start, stop, Entries(self, iterable))

\* Faulty variant: the value is placed in sorted position instead of at the end
append_sorted(self, value) == add(self, value)

append(self, value) == SL_append(Flatten(self.lists), Entry(self, value))

extend(self, iterable) ==
    SL_extend(Flatten(self.lists), Entries(self, iterable))

insert(self, i, value) ==
    SL_insert(Flatten(self.lists), i, Entry(self, value))

pop(self, i) ==
    LET r == SL_pop(Flatten(self.lists), i)
    IN  IF r.raised = "none" THEN [r EXCEPT !.value = r.value.value] ELSE r

\* Faulty variant: the insertion point after the equal entries
bisect_left_after(self, value) ==
    Unchanged("none", SL_bisect_right(Flatten(self.lists), Entry(self, value)))

bisect_left(self, value) ==
    Unchanged("none", SL_bisect_left(Flatten(self.lists), Entry(self, value)))

bisect_right(self, value) ==
    Unchanged("none", SL_bisect_right(Flatten(self.lists), Entry(self, value)))

iadd(self, that) == update(self, that)

RECURSIVE Repeat(_, _)
Repeat(s, n) == IF n <= 0 THEN <<>> ELSE s \o Repeat(s, n - 1)

\* clear(), then update() of the cleared engine with the repeated values
imul(self, that) ==
    LET values == Repeat(as_list(self), that)
    IN  Changed(0, SL_update(<<>>, Entries(self, values)))

\* SortedListWithKey(iterable, load, key, value_orderable): the collections
\* the constructor may build (one per engine layout).  `list` names the
\* engine object _list refers to: "new" is the SortedList the constructor
\* has just created, "self" the one the collection `Self` holds.
New(iterable, load, key, value_orderable) ==
    LET ctor == PairCtor(value_orderable)
        entries == [i \in 1 .. Len(iterable) |->
                      MakePair(ctor, key[iterable[i]], iterable[i])]
    IN  { [key |-> key, ordered |-> value_orderable, pair |-> ctor,
           load |-> load, list |-> "new",
           lists |-> lists, maxes |-> maxes, len |-> Len(Flatten(lists))] :
            <<lists, maxes>> \in
              UNION { { <<l, m>> : m \in MaxesOf(l) } :
                      l \in UNION { Layouts(flat, load) :
                                    flat \in SL_update(<<>>, entries) } } }

\* Faulty variant: value_orderable is not handed on, so the copy takes the
\* constructor's default
copy_default_flag(self) == New(as_list(self), self.load, self.key, TRUE)

\* Faulty variant: the copy is a second reference to the source's engine
copy_same_list(self) == {self}

copy(self) == New(as_list(self), self.load, self.key, self.ordered)

\* Faulty variant: the result is built from self's values alone
add_self_only(self, that) ==
    New(as_list(self), self.load, self.key, self.ordered)

add_(self, that) ==
    New(as_list(self) \o that, self.load, self.key, self.ordered)

mul(self, that) ==
    New(Repeat(as_list(self), that), self.load, self.key, self.ordered)

\* zip(self, that): the paired positions
Zip(self, that) == 1 .. Min(Len(as_list(self)), Len(that))

lt(self, that) ==
    /\ self.len <= Len(that)
    /\ \A i \in Zip(self, that) : as_list(self)[i] < that[i]

\* Faulty variant: the lengths are not consulted
le_paired_only(self, that) ==
    \A i \in Zip(self, that) : as_list(self)[i] <= that[i]

le(self, that) ==
    /\ self.len <= Len(that)
    /\ \A i \in Zip(self, that) : as_list(self)[i] <= that[i]

gt(self, that) ==
    /\ self.len >= Len(that)
    /\ \A i \in Zip(self, that) : as_list(self)[i] > that[i]

ge(self, that) ==
    /\ self.len >= Len(that)
    /\ \A i \in Zip(self, that) : as_list(self)[i] >= that[i]

\* ------------------------------------------------------------------ state
\* _key .. _len are the collection's fields, `last` the caller's view of the
\* call it made last, `scan` the local variables of a key-only scan that is
\* being followed iteration by iteration, and `other` a second collection
\* the caller holds.
VARIABLES _key, _ordered, _pair, _load, _lists, _maxes, _len, last, scan,
          other

config == <<_key, _ordered, _pair, _load>>

engine == <<_lists, _maxes, _len>>

vars ==
    <<_key, _ordered, _pair, _load, _lists, _maxes, _len, last, scan, other>>

Self ==
    [key |-> _key, ordered |-> _ordered, pair |-> _pair, load |-> _load,
     list |-> "self",
     lists |-> _lists, maxes |-> _maxes, len |-> _len]

\* the iterables handed to update, extend, slice assignment, += and the
\* right-hand sides of comparisons
RECURSIVE SeqsUpTo(_)
SeqsUpTo(n) ==
    IF n = 0 THEN {<<>>}
    ELSE SeqsUpTo(n - 1) \cup
         { Append(s, v) : s \in { t \in SeqsUpTo(n - 1) : Len(t) = n - 1 },
                          v \in Values }

Iterables == SeqsUpTo(MaxIter)

Indices == (0 - MaxLen - 1) .. (MaxLen + 1)

Windows == {None} \cup { Some(i) : i \in (0 - 2) .. MaxLen }

\* `last` is the caller's view of the call in progress: the operation, its
\* arguments, what it raised or returned and the values held before it.
\* Between calls it is Idle.
Idle ==
    [op |-> "idle", args |-> <<>>, raised |-> "none", value |-> 0,
     before |-> <<>>]

\* a public operation is called only when no call is in progress
Ready == last.op = "idle"

\* no scan is being followed
NoScan ==
    [state |-> "off", op |-> "none", value |-> 0, key |-> 0, start |-> 0,
     stop |-> 0, pos |-> 0, idx |-> 0, len_sublist |-> 0, total |-> 0,
     from |-> 0, seen |-> <<>>, raised |-> "none", result |-> 0,
     delete |-> FALSE]

\* the caller holds no second collection
NoOther == [held |-> FALSE]

\* The engine takes outcome r of an operation: on a structural change it
\* holds one of r.flats in some layout; otherwise it is left as it was.
Holds(r) ==
    IF r.same
    THEN UNCHANGED engine
    ELSE \E flat \in r.flats : \E lists \in Layouts(flat, _load) :
           \E maxes \in MaxesOf(lists) :
             /\ _lists' = lists
             /\ _maxes' = maxes
             /\ _len' = Len(flat)

Took(op, args, r) ==
    /\ Holds(r)
    /\ last' = [op |-> op, args |-> args, raised |-> r.raised,
                value |-> r.value, before |-> as_list(Self)]
    /\ UNCHANGED <<config, scan, other>>

\* SortedListWithKey(iterable, load, key, value_orderable)
Init ==
    \E iterable \in Iterables, load \in Loads, key \in KeyFns,
       value_orderable \in BOOLEAN :
      /\ \E new \in New(iterable, load, key, value_orderable) :
           /\ _key = new.key
           /\ _ordered = new.ordered
           /\ _pair = new.pair
           /\ _load = new.load
           /\ _lists = new.lists
           /\ _maxes = new.maxes
           /\ _len = new.len
      /\ last = [op |-> "init", args |-> <<iterable>>, raised |-> "none",
                 value |-> 0, before |-> <<>>]
      /\ scan = NoScan
      /\ other = NoOther

Clear ==
    /\ Ready
    /\ Took("clear", <<>>, clear(Self))

Add ==
    /\ Ready
    /\ \E value \in Values :
        /\ _len < MaxLen
        /\ Took("add", <<value>>, add(Self, value))

Update ==
    /\ Ready
    /\ \E iterable \in Iterables :
        /\ _len + Len(iterable) <= MaxLen
        /\ Took("update", <<iterable>>, update(Self, iterable))

Contains ==
    /\ Ready
    /\ \E value \in Values :
        Took("contains", <<value>>, contains(Self, value))

Discard ==
    /\ Ready
    /\ \E value \in Values :
        Took("discard", <<value>>, discard(Self, value))

Remove ==
    /\ Ready
    /\ \E value \in Values :
        Took("remove", <<value>>, remove(Self, value))

Count ==
    /\ Ready
    /\ \E value \in Values :
        Took("count", <<value>>, count(Self, value))

Index ==
    /\ Ready
    /\ \E value \in Values, start \in Windows, stop \in Windows :
        Took("index", <<value, start, stop>>, index(Self, value, start, stop))

DelItem ==
    /\ Ready
    /\ \E i \in Indices :
        Took("delitem", <<i>>, delitem(Self, i))

DelSlice ==
    /\ Ready
    /\ \E start \in 0 .. _len : \E stop \in start .. _len :
        Took("delslice", <<start, stop>>, delslice(Self, start, stop))

SetItem ==
    /\ Ready
    /\ \E i \in Indices, value \in Values :
        Took("setitem", <<i, value>>, setitem(Self, i, value))

SetSlice ==
    /\ Ready
    /\ \E start \in 0 .. _len : \E stop \in start .. _len :
        \E iterable \in Iterables :
          /\ _len - (stop - start) + Len(iterable) <= MaxLen
          /\ Took("setslice", <<start, stop, iterable>>,
                  setslice(Self, start, stop, iterable))

AppendOp ==
    /\ Ready
    /\ \E value \in Values :
        /\ _len < MaxLen
        /\ Took("append", <<value>>, append(Self, value))

Extend ==
    /\ Ready
    /\ \E iterable \in Iterables :
        /\ _len + Len(iterable) <= MaxLen
        /\ Took("extend", <<iterable>>, extend(Self, iterable))

Insert ==
    /\ Ready
    /\ \E i \in Indices, value \in Values :
        /\ _len < MaxLen
        /\ Took("insert", <<i, value>>, insert(Self, i, value))

Pop ==
    /\ Ready
    /\ \E i \in Indices :
        Took("pop", <<i>>, pop(Self, i))

BisectLeft ==
    /\ Ready
    /\ \E value \in Values :
        Took("bisect_left", <<value>>, bisect_left(Self, value))

BisectRight ==
    /\ Ready
    /\ \E value \in Values :
        Took("bisect_right", <<value>>, bisect_right(Self, value))

IAdd ==
    /\ Ready
    /\ \E that \in Iterables :
        /\ _len + Len(that) <= MaxLen
        /\ Took("iadd", <<that>>, iadd(Self, that))

IMul ==
    /\ Ready
    /\ \E that \in 0 .. MaxLen :
        /\ _len * that <= MaxLen
        /\ Took("imul", <<that>>, imul(Self, that))

Copy ==
    /\ Ready
    /\ \E new \in copy(Self) :
        Took("copy", <<>>, Unchanged("none", new))

AddOp ==
    /\ Ready
    /\ \E that \in Iterables :
        /\ _len + Len(that) <= MaxLen
        /\ \E new \in add_(Self, that) :
             Took("add_", <<that>>, Unchanged("none", new))

Mul ==
    /\ Ready
    /\ \E that \in 0 .. MaxLen :
        /\ _len * that <= MaxLen
        /\ \E new \in mul(Self, that) :
             Took("mul", <<that>>, Unchanged("none", new))

Lt ==
    /\ Ready
    /\ \E that \in Iterables :
        Took("lt", <<that>>, Unchanged("none", lt(Self, that)))

Le ==
    /\ Ready
    /\ \E that \in Iterables :
        Took("le", <<that>>, Unchanged("none", le(Self, that)))

Gt ==
    /\ Ready
    /\ \E that \in Iterables :
        Took("gt", <<that>>, Unchanged("none", gt(Self, that)))

Ge ==
    /\ Ready
    /\ \E that \in Iterables :
        Took("ge", <<that>>, Unchanged("none", ge(Self, that)))

\* the call returns to the caller, which may then issue the next one
Return ==
    /\ last.op # "idle"
    /\ last' = Idle
    /\ UNCHANGED <<config, engine, scan, other>>

Next ==
    \/ Return
    \/ Clear \/ Add \/ Update \/ Contains \/ Discard \/ Remove \/ Count
    \/ Index \/ DelItem \/ DelSlice \/ SetItem \/ SetSlice \/ AppendOp
    \/ Extend \/ Insert \/ Pop \/ IAdd \/ IMul \/ Copy \/ AddOp \/ Mul
    \/ Lt \/ Le \/ Gt \/ Ge \/ BisectLeft \/ BisectRight

Spec == Init /\ [][Next]_vars

\* ------------------------------------------------------------------------
\* The key-only scan of __contains__, discard, remove, count and index,
\* followed one loop iteration at a time.  `scan` holds the locals of the
\* method (pos, idx, len_sublist, count's total, index's normalised start
\* and stop) and, for the record, `from` (the rank the scan starts at) and
\* `seen` (every _lists[pos][idx] read so far: its pos and idx, its rank,
\* the key found there and the length of its chunk).
ScanOps == {"contains", "discard", "remove", "count", "index"}

\* the method returns result or raises
Done(s, raised, result) ==
    [s EXCEPT !.state = "done", !.raised = raised, !.result = result]

\* the return of each method when the scan ends without a match
Absent(s) ==
    CASE s.op = "contains" -> Done(s, "none", FALSE)
      [] s.op = "discard" -> Done(s, "none", 0)
      [] s.op = "count" -> Done(s, "none", s.total)
      [] OTHER -> Done(s, "ValueError", 0)

\* the method up to the first iteration of its loop
scan_enter(self, op, value, start, stop) ==
    LET k == self.key[value]
        p == MakePair(self.pair, k, value)
        a == IF op = "index" THEN index_start(self.len, start) ELSE 0
        b == IF op = "index" THEN index_stop(self.len, stop) ELSE 0
        s == [NoScan EXCEPT !.op = op, !.value = value, !.key = k,
                            !.start = a, !.stop = b]
    IN  IF op = "index" /\ b <= a THEN Done(s, "ValueError", 0)
        ELSE IF self.maxes.is_None
        THEN IF op = "index" THEN Done(s, "TypeError", 0) ELSE Absent(s)
        ELSE LET pos == std_bisect_left(self.maxes.items, p)
             IN  IF pos = Len(self.maxes.items)
                 THEN Absent(s)
                 ELSE LET idx == std_bisect_left(self.lists[pos + 1], p)
                      IN  [s EXCEPT !.state = "loop", !.pos = pos,
                                    !.idx = idx,
                                    !.len_sublist = Len(self.lists[pos + 1]),
                                    !.from = SL_loc(self.lists, pos, idx)]

\* the read of _lists[pos][idx], put on record
Read(lists, s) ==
    [s EXCEPT !.seen = Append(@, [pos |-> s.pos, idx |-> s.idx,
                                  rank |-> SL_loc(lists, s.pos, s.idx),
                                  key |-> lists[s.pos + 1][s.idx + 1].key,
                                  chunk |-> Len(lists[s.pos + 1])])]

\* idx += 1 and, at the end of the chunk, the move to the next one
Advance(lists, s) ==
    IF s.idx + 1 = s.len_sublist
    THEN IF s.pos + 1 = Len(lists)
         THEN Absent(s)
         ELSE [s EXCEPT !.pos = @ + 1, !.idx = 0,
                        !.len_sublist = Len(lists[s.pos + 2])]
    ELSE [s EXCEPT !.idx = @ + 1]

\* Faulty variant: the key of the entry read is not tested, so the scan runs
\* on until a value matches or the last chunk ends
scan_step_any_key(lists, s) ==
    IF ~InRange(lists, s.pos, s.idx)
    THEN Done(s, "IndexError", 0)
    ELSE LET pair == lists[s.pos + 1][s.idx + 1]
             read == Read(lists, s)
         IN  IF s.value = pair.value /\ s.op = "contains"
             THEN Done(read, "none", TRUE)
             ELSE IF s.value = pair.value /\ s.op \in {"discard", "remove"}
             THEN [Done(read, "none", 0) EXCEPT !.delete = TRUE]
             ELSE IF s.value = pair.value /\ s.op = "count"
             THEN Advance(lists, [read EXCEPT !.total = @ + 1])
             ELSE Advance(lists, read)

\* one iteration of `while True:`
scan_step(lists, s) ==
    IF ~InRange(lists, s.pos, s.idx)
    THEN Done(s, "IndexError", 0)
    ELSE LET pair == lists[s.pos + 1][s.idx + 1]
             loc == SL_loc(lists, s.pos, s.idx)
             read == Read(lists, s)
         IN  IF s.key # pair.key THEN Absent(read)
             ELSE IF s.value = pair.value /\ s.op = "contains"
             THEN Done(read, "none", TRUE)
             ELSE IF s.value = pair.value /\ s.op \in {"discard", "remove"}
             THEN [Done(read, "none", 0) EXCEPT !.delete = TRUE]
             ELSE IF s.value = pair.value /\ s.op = "count"
             THEN Advance(lists, [read EXCEPT !.total = @ + 1])
             ELSE IF /\ s.value = pair.value
                     /\ s.op = "index"
                     /\ s.start <= loc
                     /\ loc < s.stop
             THEN Done(read, "none", loc)
             ELSE Advance(lists, read)

\* a key-only collection built from up to MaxLen values
ScanInit ==
    /\ \E iterable \in SeqsUpTo(MaxLen), load \in Loads, key \in KeyFns :
         \E new \in New(iterable, load, key, FALSE) :
           /\ _key = new.key
           /\ _ordered = new.ordered
           /\ _pair = new.pair
           /\ _load = new.load
           /\ _lists = new.lists
           /\ _maxes = new.maxes
           /\ _len = new.len
    /\ last = Idle
    /\ scan = NoScan
    /\ other = NoOther

\* a scanning method is called
ScanBegin ==
    /\ scan.state = "off"
    /\ \E op \in ScanOps, value \in Values, start \in Windows,
          stop \in Windows :
         /\ op # "index" => start = None /\ stop = None
         /\ scan' = scan_enter(Self, op, value, start, stop)
    /\ UNCHANGED <<config, engine, last, other>>

\* one iteration; discard and remove end theirs with _list._delete(pos, idx)
ScanStep ==
    /\ scan.state = "loop"
    /\ scan' = scan_step(_lists, scan)
    /\ IF scan'.delete
       THEN Holds(SL_delete(_lists, scan.pos, scan.idx))
       ELSE UNCHANGED engine
    /\ UNCHANGED <<config, last, other>>

\* the method has returned; the caller may call the next one
ScanEnd ==
    /\ scan.state = "done"
    /\ scan' = NoScan
    /\ UNCHANGED <<config, engine, last, other>>

ScanNext == ScanBegin \/ ScanStep \/ ScanEnd

\* The loop runs in the calling thread with nothing to wait for: an
\* iteration that can be taken is taken.
ScanSpec == ScanInit /\ [][ScanNext]_vars /\ WF_vars(ScanStep)

\* ------------------------------------------------------------------------
\* Two collections.  `other` is a second SortedListWithKey the caller holds:
\* the result of copy(), + or *, or a collection constructed next to Self.
\* Its `list` field names its engine object; `lists`, `maxes` and `len` are
\* that engine's state when it is an engine of its own.
Keep(c) ==
    [held |-> TRUE, key |-> c.key, ordered |-> c.ordered, pair |-> c.pair,
     load |-> c.load, list |-> c.list, lists |-> c.lists, maxes |-> c.maxes,
     len |-> c.len]

\* c with the present state of the engine object c._list refers to
View(c) ==
    IF c.list = "self"
    THEN [c EXCEPT !.lists = _lists, !.maxes = _maxes, !.len = _len]
    ELSE c

\* other's own engine takes outcome r
OtherHolds(r) ==
    IF r.same
    THEN other' = other
    ELSE \E flat \in r.flats : \E lists \in Layouts(flat, other.load) :
           \E maxes \in MaxesOf(lists) :
             other' = [other EXCEPT !.lists = lists, !.maxes = maxes,
                                    !.len = Len(flat)]

\* outcome r of a call on collection c reaches the engine c refers to
Lands(c, r) ==
    IF c.list = "self"
    THEN Holds(r) /\ other' = other
    ELSE OtherHolds(r) /\ UNCHANGED engine

\* the first and the last position
Ends == {0, 0 - 1}

\* the outcomes of the mutating calls made on c: add, remove, discard, pop,
\* clear and assignment to a position
Mutations(c) ==
    { add(c, value) : value \in IF c.len < MaxHeld THEN Values ELSE {} }
      \cup { remove(c, value) : value \in Values }
      \cup { discard(c, value) : value \in Values }
      \cup { pop(c, i) : i \in Ends }
      \cup { clear(c) }
      \cup { setitem(c, i, value) : i \in Ends, value \in Values }

\* In DerivedSpec `last.op` names what the last call was made on: "self",
\* "other", or "new" for a call that returned a new collection.
On(what) == [Idle EXCEPT !.op = what]

DerivedInit ==
    /\ \E iterable \in SeqsUpTo(MaxHeld), load \in Loads, key \in KeyFns,
          value_orderable \in BOOLEAN :
         \E new \in New(iterable, load, key, value_orderable) :
           /\ _key = new.key
           /\ _ordered = new.ordered
           /\ _pair = new.pair
           /\ _load = new.load
           /\ _lists = new.lists
           /\ _maxes = new.maxes
           /\ _len = new.len
    /\ last = Idle
    /\ scan = NoScan
    /\ other = NoOther

\* other = self.copy()
DeriveCopy ==
    /\ \E new \in copy(Self) : other' = Keep(new)
    /\ last' = On("new")
    /\ UNCHANGED <<config, engine, scan>>

\* other = self + that
DeriveAdd ==
    /\ \E that \in Iterables :
         /\ _len + Len(that) <= MaxHeld
         /\ \E new \in add_(Self, that) : other' = Keep(new)
    /\ last' = On("new")
    /\ UNCHANGED <<config, engine, scan>>

\* other = self * that
DeriveMul ==
    /\ \E that \in 0 .. MaxHeld :
         /\ _len * that <= MaxHeld
         /\ \E new \in mul(Self, that) : other' = Keep(new)
    /\ last' = On("new")
    /\ UNCHANGED <<config, engine, scan>>

\* a mutating call on self
SelfMutated ==
    /\ \E r \in Mutations(Self) : Lands(Self, r)
    /\ last' = On("self")
    /\ UNCHANGED <<config, scan>>

\* a mutating call on other
OtherMutated ==
    /\ other.held
    /\ \E r \in Mutations(View(other)) : Lands(other, r)
    /\ last' = On("other")
    /\ UNCHANGED <<config, scan>>

DerivedNext ==
    DeriveCopy \/ DeriveAdd \/ DeriveMul \/ SelfMutated \/ OtherMutated

DerivedSpec == DerivedInit /\ [][DerivedNext]_vars

\* Self with orderable values and `other` key-only, constructed with the
\* same key function, load and initial values, and from then on given the
\* same calls.
DualInit ==
    /\ \E iterable \in Iterables, load \in Loads, key \in KeyFns :
         /\ \E new \in New(iterable, load, key, TRUE) :
              /\ _key = new.key
              /\ _ordered = new.ordered
              /\ _pair = new.pair
              /\ _load = new.load
              /\ _lists = new.lists
              /\ _maxes = new.maxes
              /\ _len = new.len
         /\ \E new \in New(iterable, load, key, FALSE) : other = Keep(new)
    /\ last = Idle
    /\ scan = NoScan

\* the same call on both: each engine takes the outcome of its own
Both(r, s) ==
    /\ Holds(r)
    /\ OtherHolds(s)
    /\ UNCHANGED <<config, last, scan>>

DualAdd ==
    /\ other.held
    /\ \E value \in Values :
         /\ _len < MaxLen
         /\ Both(add(Self, value), add(other, value))

DualUpdate ==
    /\ other.held
    /\ \E iterable \in Iterables :
         /\ _len + Len(iterable) <= MaxLen
         /\ Both(update(Self, iterable), update(other, iterable))

DualDiscard ==
    /\ other.held
    /\ \E value \in Values :
         Both(discard(Self, value), discard(other, value))

DualRemove ==
    /\ other.held
    /\ \E value \in Values :
         Both(remove(Self, value), remove(other, value))

DualNext == DualAdd \/ DualUpdate \/ DualDiscard \/ DualRemove

DualSpec == DualInit /\ [][DualNext]_vars

\* ------------------------------------------------------------------------
\* Properties.  Flat is the stored entry sequence, Now the unwrapped values.
Flat == Flatten(_lists)

Now == ValuesOf(Flat)

Arg(n) == last.args[n]

Called(ops) == last.op \in ops

KeyOrdered(values) ==
    \A i \in 1 .. Len(values) - 1 : _key[values[i]] <= _key[values[i + 1]]

FullyOrdered(values) ==
    \A i \in 1 .. Len(values) - 1 :
      \/ _key[values[i]] < _key[values[i + 1]]
      \/ _key[values[i]] = _key[values[i + 1]] /\ values[i] <= values[i + 1]

Occurrences(values, v) == { i \in 1 .. Len(values) : values[i] = v }

SameKey(values, v) == { i \in 1 .. Len(values) : _key[values[i]] = _key[v] }

\* C1 (sortedness): whatever operation was last called, and whether it
\* succeeded or raised, the stored values are non-decreasing by key_fn(value)
\* and, with orderable values, non-decreasing under the (key, value) order.
C1_Sortedness ==
    /\ KeyOrdered(Now)
    /\ _ordered => FullyOrdered(Now)

\* a rejected positional write on a full key-only collection whose values
\* are not in value order
C1_Witness ==
    /\ Called({"insert", "append", "extend", "setitem", "setslice"})
    /\ last.raised = "ValueError"
    /\ ~_ordered
    /\ _len = MaxLen
    /\ Len(_lists) > 1
    /\ \E i \in 1 .. Len(Now) - 1 : Now[i] > Now[i + 1]

Consistent(c) ==
    \A i \in 1 .. Len(Flatten(c.lists)) :
      Flatten(c.lists)[i].key = c.key[Flatten(c.lists)[i].value]

\* C2 (key/value consistency): every stored entry's key is key_fn of its
\* value, after every operation, in the collection and in the collections
\* that copy, + and * return.
C2_KeyValueConsistent ==
    /\ Consistent(Self)
    /\ Called({"copy", "add_", "mul"}) => Consistent(last.value)

\* a successful single-position assignment that changed the value stored at
\* that position, under the non-identity key function
C2_Witness ==
    /\ Called({"setitem"})
    /\ last.raised = "none"
    /\ Now # last.before
    /\ \E v \in Values : _key[v] # v

\* C3 (membership, key-only): `v in c` returns true exactly when some stored
\* value equals v, in every layout and never raising.
C3_Membership ==
    (Called({"contains"}) /\ ~_ordered) =>
        /\ last.raised = "none"
        /\ last.value = (Occurrences(Now, Arg(1)) # {})

\* a query for a value absent from an equal-key run that spans two chunks
C3_Witness ==
    /\ Called({"contains"})
    /\ ~_ordered
    /\ Len(_lists) > 1
    /\ _len = MaxLen
    /\ SameKey(Now, Arg(1)) = 1 .. _len
    /\ Occurrences(Now, Arg(1)) = {}
    /\ last.value = FALSE

\* C4 (removal of a present value, key-only): remove(v) and discard(v) delete
\* exactly the lowest-ranked entry whose value equals v and nothing else.
C4_RemovesFirstMatch ==
    (Called({"remove", "discard"}) /\ ~_ordered
         /\ Occurrences(last.before, Arg(1)) # {}) =>
        /\ last.raised = "none"
        /\ Now = RemoveAt(last.before,
                          SetMin(Occurrences(last.before, Arg(1))) - 1)

\* remove(b) from equal-key a, b, c leaves a, c
C4_Witness ==
    /\ Called({"remove"})
    /\ ~_ordered
    /\ Len(last.before) = 3
    /\ SameKey(last.before, Arg(1)) = 1 .. 3
    /\ Occurrences(last.before, Arg(1)) = {2}
    /\ last.before[1] # last.before[3]
    /\ Now = <<last.before[1], last.before[3]>>

\* C5 (count, key-only): count(v) is the number of stored values equal to v,
\* not the number of entries that share v's key.
C5_Count ==
    (Called({"count"}) /\ ~_ordered) =>
        /\ last.raised = "none"
        /\ last.value = Cardinality(Occurrences(Now, Arg(1)))

\* a value stored twice in an equal-key run of three that crosses a chunk
\* boundary
C5_Witness ==
    /\ Called({"count"})
    /\ ~_ordered
    /\ Len(_lists) > 1
    /\ SameKey(Now, Arg(1)) = 1 .. 3
    /\ last.value = 2

\* The window of index(v, start, stop) as the claim states it.
WindowStart(n, start) ==
    LET s == IF start = None THEN 0
             ELSE IF start[1] < 0 THEN start[1] + n ELSE start[1]
    IN  IF s < 0 THEN 0 ELSE s

WindowStop(n, stop) ==
    LET s == IF stop = None THEN n
             ELSE IF stop[1] < 0 THEN stop[1] + n ELSE stop[1]
    IN  IF s > n THEN n ELSE s

InWindow(values, v, start, stop) ==
    { k \in Occurrences(values, v) :
        /\ WindowStart(Len(values), start) <= k - 1
        /\ k - 1 < WindowStop(Len(values), stop) }

\* the collection [1, 1, 2, 2, 3] keyed by identity, in a given layout
Example(lists) ==
    [key |-> [v \in Values |-> v], ordered |-> FALSE, pair |-> "Pair",
     load |-> Load, list |-> "new",
     lists |-> lists, maxes |-> ListMaxes(lists), len |-> 5]

ExampleLayouts ==
    Layouts(<<Pair(1, 1), Pair(1, 1), Pair(2, 2), Pair(2, 2), Pair(3, 3)>>,
            Load)

\* C6 (index with window, key-only): index(v, start, stop) returns the
\* smallest rank in the normalised window that holds v and raises ValueError
\* when the window is empty or holds no v; on [1,1,2,2,3] keyed by identity
\* index(2,0,5) = 2, index(2,3,5) = 3 and index(2,4,5) fails.
C6_IndexWindow ==
    /\ (Called({"index"}) /\ ~_ordered) =>
         LET hits == InWindow(Now, Arg(1), Arg(2), Arg(3))
         IN  IF hits = {}
             THEN last.raised = "ValueError"
             ELSE last.raised = "none" /\ last.value = SetMin(hits) - 1
    /\ last.op = "init" => \A lists \in ExampleLayouts :
         /\ index(Example(lists), 2, Some(0), Some(5)) = Unchanged("none", 2)
         /\ index(Example(lists), 2, Some(3), Some(5)) = Unchanged("none", 3)
         /\ index(Example(lists), 2, Some(4), Some(5)).raised = "ValueError"

\* the first occurrence lies before the window and a later one inside it
C6_Witness ==
    /\ Called({"index"})
    /\ ~_ordered
    /\ last.raised = "none"
    /\ last.value > SetMin(Occurrences(Now, Arg(1))) - 1
    /\ Arg(2) # None /\ Arg(2)[1] < 0

\* C7 (remove of an absent value): in both representations remove(v) with no
\* stored value equal to v raises ValueError and changes nothing.
C7_RemoveAbsent ==
    (Called({"remove"}) /\ Occurrences(last.before, Arg(1)) = {}) =>
        /\ last.raised = "ValueError"
        /\ Now = last.before

\* v's key is present, but only with other values, in a key-only collection
C7_Witness ==
    /\ Called({"remove"})
    /\ ~_ordered
    /\ last.raised = "ValueError"
    /\ SameKey(last.before, Arg(1)) # {}
    /\ Len(_lists) > 1

\* C8 (discard of an absent value): in both representations discard(v) with
\* no stored value equal to v raises nothing and changes nothing.
C8_DiscardAbsent ==
    (Called({"discard"}) /\ Occurrences(last.before, Arg(1)) = {}) =>
        /\ last.raised = "none"
        /\ Now = last.before

\* other entries share v's key, in a key-only collection
C8_Witness ==
    /\ Called({"discard"})
    /\ ~_ordered
    /\ Occurrences(last.before, Arg(1)) = {}
    /\ SameKey(last.before, Arg(1)) = 1 .. MaxLen
    /\ Now = last.before

\* The flat value sequence a positional write asks for.
Requested ==
    LET b == last.before
        n == Len(b)
    IN  CASE last.op = "append" -> Append(b, Arg(1))
          [] last.op = "extend" -> b \o Arg(1)
          [] last.op = "insert" ->
               LET i1 == IF Arg(1) < 0 THEN Arg(1) + n ELSE Arg(1)
                   i == IF i1 < 0 THEN 0 ELSE IF i1 > n THEN n ELSE i1
               IN  InsertAt(b, i, Arg(2))
          [] last.op = "setitem" ->
               LET i == IF Arg(1) < 0 THEN Arg(1) + n ELSE Arg(1)
               IN  IF 0 <= i /\ i < n THEN [b EXCEPT ![i + 1] = Arg(2)] ELSE b
          [] last.op = "setslice" ->
               SubSeq(b, 1, Arg(1)) \o Arg(3) \o SubSeq(b, Arg(2) + 1, n)

PositionalWrites == {"append", "extend", "insert", "setitem", "setslice"}

\* C9 (order-violation rejection): a positional write whose new entries
\* would leave the values not sorted by key raises ValueError, and whenever
\* a positional write raises the values are exactly those before the call.
C9_AllOrNothing ==
    Called(PositionalWrites) =>
        /\ ~KeyOrdered(Requested) => last.raised = "ValueError"
        /\ last.raised # "none" => Now = last.before

\* a rejected slice assignment that would have replaced stored values
C9_Witness ==
    /\ Called({"setslice"})
    /\ last.raised = "ValueError"
    /\ Arg(2) - Arg(1) >= 2
    /\ Len(Arg(3)) >= 2
    /\ ~KeyOrdered(Requested)

\* The paired elements of a comparison all satisfy the relation.
Paired(that) == 1 .. Min(Len(Now), Len(that))

\* C10 as stated: <= and >= are decided by the paired elements alone and
\* never consult the lengths.
C10_NonStrictIgnoresLength ==
    /\ Called({"le"}) =>
         last.value = (\A i \in Paired(Arg(1)) : Now[i] <= Arg(1)[i])
    /\ Called({"ge"}) =>
         last.value = (\A i \in Paired(Arg(1)) : Now[i] >= Arg(1)[i])

\* C10 (amended): all four operators consult the lengths; < and <= require
\* len(A) <= len(B), > and >= require len(A) >= len(B), each in addition to
\* every paired element satisfying the relation.
C10_AllConsultLength ==
    /\ Called({"lt"}) =>
         last.value = (/\ Len(Now) <= Len(Arg(1))
                       /\ \A i \in Paired(Arg(1)) : Now[i] < Arg(1)[i])
    /\ Called({"le"}) =>
         last.value = (/\ Len(Now) <= Len(Arg(1))
                       /\ \A i \in Paired(Arg(1)) : Now[i] <= Arg(1)[i])
    /\ Called({"gt"}) =>
         last.value = (/\ Len(Now) >= Len(Arg(1))
                       /\ \A i \in Paired(Arg(1)) : Now[i] > Arg(1)[i])
    /\ Called({"ge"}) =>
         last.value = (/\ Len(Now) >= Len(Arg(1))
                       /\ \A i \in Paired(Arg(1)) : Now[i] >= Arg(1)[i])

\* A >= B with every paired element equal and A the shorter one is false
C10_Witness ==
    /\ Called({"ge"})
    /\ Len(Now) > 0
    /\ Len(Now) < Len(Arg(1))
    /\ \A i \in Paired(Arg(1)) : Now[i] = Arg(1)[i]
    /\ last.value = FALSE

Times(values, v) == Cardinality(Occurrences(values, v))

SameValues(these, those) ==
    \A v \in Values : Times(these, v) = Times(those, v)

\* C11 (concatenation): A + B returns a new collection whose length is
\* len(A) + len(B), whose values are A's and B's values together, each as
\* often as in A plus as often as in B, stored in key order, and which has
\* A's key function, representation flag and chunk-size target.
C11_Concatenation ==
    Called({"add_"}) =>
        LET new == last.value
            got == ValuesOf(Flatten(new.lists))
        IN  /\ new.len = Len(Now) + Len(Arg(1))
            /\ Len(got) = new.len
            /\ \A v \in Values :
                 Times(got, v) = Times(Now, v) + Times(Arg(1), v)
            /\ KeyOrdered(got)
            /\ new.key = _key
            /\ new.ordered = _ordered
            /\ new.pair = _pair
            /\ new.load = _load

\* B holds a value that sorts before one of A's, A is key-only, and the
\* result spans more than one chunk
C11_Witness ==
    /\ Called({"add_"})
    /\ ~_ordered
    /\ Len(Now) > 0
    /\ Len(Arg(1)) > 0
    /\ \E i \in 1 .. Len(Now) : _key[Arg(1)[1]] < _key[Now[i]]
    /\ Len(last.value.lists) > 1
    /\ last.value.len = MaxLen

\* C12 (add then remove): in both representations, in the state add(v) has
\* left behind, remove(v) succeeds and leaves the values and the length
\* that were held before the add, whatever the engine's layout, and also
\* when other entries share v's key or equal v.
C12_AddThenRemove ==
    Called({"add"}) =>
        LET r == remove(Self, Arg(1))
        IN  /\ r.raised = "none"
            /\ ~r.same
            /\ r.flats # {}
            /\ \A flat \in r.flats :
                 /\ Len(flat) = Len(last.before)
                 /\ SameValues(ValuesOf(flat), last.before)

\* key-only: v was added next to another value with v's key and to a value
\* equal to v, across more than one chunk
C12_Witness ==
    /\ Called({"add"})
    /\ ~_ordered
    /\ Len(_lists) > 1
    /\ Occurrences(last.before, Arg(1)) # {}
    /\ SameKey(last.before, Arg(1)) # Occurrences(last.before, Arg(1))
    /\ remove(Self, Arg(1)).raised = "none"

\* C13 (representation stability): no operation changes the representation
\* flag, the key function, the entry constructor or the chunk-size target;
\* every stored entry is of the representation the flag selects; and the
\* collections copy, + and * return have the source's flag, key function and
\* chunk-size target.
SameRepresentation(c) ==
    /\ c.pair = PairCtor(c.ordered)
    /\ \A i \in 1 .. Len(Flatten(c.lists)) :
         Flatten(c.lists)[i].kind = PairCtor(c.ordered)

C13_RepresentationStable ==
    /\ [](/\ SameRepresentation(Self)
          /\ Called({"copy", "add_", "mul"}) =>
               /\ SameRepresentation(last.value)
               /\ last.value.ordered = _ordered
               /\ last.value.key = _key
               /\ last.value.load = _load)
    /\ [][UNCHANGED config]_vars

\* a non-empty copy of a key-only collection built with the non-identity
\* key function and the larger chunk-size target
C13_Witness ==
    /\ Called({"copy"})
    /\ ~_ordered
    /\ _load # Load
    /\ \E v \in Values : _key[v] # v
    /\ last.value.len > 1

KeysBelow(values, v) == { i \in 1 .. Len(values) : _key[values[i]] < _key[v] }

KeysUpTo(values, v) == { i \in 1 .. Len(values) : _key[values[i]] <= _key[v] }

\* C14 (bisect): bisect_left(v) returns a rank at or before every stored
\* value equal to v and bisect_right(v) a rank after every one of them; in
\* key-only mode bisect_left(v) is the number of entries whose key is below
\* key_fn(v) and bisect_right(v) the number whose key is at most key_fn(v);
\* and insert(rank, v) at the returned rank is accepted as keeping the order.
C14_Bisect ==
    /\ Called({"bisect_left"}) =>
         /\ \A i \in Occurrences(Now, Arg(1)) : last.value <= i - 1
         /\ ~_ordered => last.value = Cardinality(KeysBelow(Now, Arg(1)))
         /\ insert(Self, last.value, Arg(1)).raised = "none"
    /\ Called({"bisect_right"}) =>
         /\ \A i \in Occurrences(Now, Arg(1)) : last.value > i - 1
         /\ ~_ordered => last.value = Cardinality(KeysUpTo(Now, Arg(1)))
         /\ insert(Self, last.value, Arg(1)).raised = "none"

\* key-only bisect_right(v) with v stored between a smaller key and a larger
\* one, next to another value of v's key
C14_Witness ==
    /\ Called({"bisect_right"})
    /\ ~_ordered
    /\ Occurrences(Now, Arg(1)) # {}
    /\ SameKey(Now, Arg(1)) # Occurrences(Now, Arg(1))
    /\ KeysBelow(Now, Arg(1)) # {}
    /\ last.value = Len(Now)
    /\ Len(_lists) > 1

\* C18 (reads stay in range, key-only mode): in every reachable state no
\* chunk is empty and each chunk maximum is its chunk's last entry, also
\* after deletions by discard and remove; and contains, discard, remove,
\* count and index, for every query value, read _lists[pos][idx] only with
\* 0 <= pos < number of chunks and 0 <= idx < length of chunk pos, so none
\* of them ends in an out-of-range error, also not on an emptied collection.
WellFormed(c) ==
    /\ \A pos \in 1 .. Len(c.lists) : c.lists[pos] # <<>>
    /\ ~c.maxes.is_None => c.maxes = ListMaxes(c.lists)
    /\ c.maxes.is_None => c.lists = <<>>

C18_ReadsInRange ==
    /\ WellFormed(Self)
    /\ (Called({"contains", "discard", "remove", "count", "index"})
          /\ ~_ordered) =>
         last.raised \notin {"IndexError", "TypeError"}

\* key-only count over a full collection in several chunks whose entries all
\* share the query's key, the last of them a different value: the scan reads
\* every entry and stops at the end of the last chunk
C18_Witness ==
    /\ Called({"count"})
    /\ ~_ordered
    /\ _len = MaxLen
    /\ Len(_lists) > 1
    /\ SameKey(Now, Arg(1)) = 1 .. Len(Now)
    /\ Now[Len(Now)] # Arg(1)
    /\ last.raised = "none"
    /\ last.value > 0

\* C15 (bounded scan, key-only mode): the scan loop of contains, discard,
\* remove, count and index ends; it starts at the first entry whose key is
\* not below the query's key, reads consecutive ranks, moves to the next
\* chunk only from the last position of a chunk, and reads nothing after
\* the first entry whose key differs from the query's key.
ReadsInOrder ==
    /\ \A i \in 1 .. Len(scan.seen) : scan.seen[i].rank = scan.from + i - 1
    /\ \A i \in 1 .. Len(scan.seen) - 1 :
         /\ scan.seen[i].key = scan.key
         /\ \/ /\ scan.seen[i + 1].pos = scan.seen[i].pos
               /\ scan.seen[i + 1].idx = scan.seen[i].idx + 1
            \/ /\ scan.seen[i + 1].pos = scan.seen[i].pos + 1
               /\ scan.seen[i + 1].idx = 0
               /\ scan.seen[i].idx = scan.seen[i].chunk - 1

StartsAtFirstNotBelow ==
    scan.state = "loop" =>
        /\ scan.from = Cardinality(KeysBelow(Now, scan.value))
        /\ scan.from < Len(Now)
        /\ SL_loc(_lists, scan.pos, scan.idx) = scan.from + Len(scan.seen)

C15_BoundedScan ==
    /\ [](ReadsInOrder /\ StartsAtFirstNotBelow)
    /\ (scan.state = "loop") ~> (scan.state = "done")

\* index() has read a whole run of equal keys that spans two chunks, passed
\* over a match outside its window, and stopped at the first larger key
C15_Witness ==
    /\ scan.state = "done"
    /\ scan.op = "index"
    /\ scan.raised = "ValueError"
    /\ Len(scan.seen) = MaxLen
    /\ scan.seen[1].pos # scan.seen[2].pos
    /\ scan.seen[2].key = scan.key
    /\ scan.seen[MaxLen].key # scan.key
    /\ \E i \in 1 .. Len(Now) : Now[i] = scan.value

\* the values `other` holds, read through its engine
OtherValues == IF other.held THEN as_list(View(other)) ELSE <<>>

\* C16 (derived collections are independent): copy(), A + B and A * n leave
\* A as it was and return a collection with an engine of its own; a later
\* mutating call on the result leaves A's engine as it was, and a later
\* mutating call on A leaves the result's values as they were.
C16_Independent ==
    /\ [](other.held => other.list # "self")
    /\ [][last'.op = "new" => UNCHANGED engine]_vars
    /\ [][last'.op = "other" => UNCHANGED engine]_vars
    /\ [][last'.op = "self" => OtherValues' = OtherValues]_vars

\* the result was changed by a call made on it and now differs from A, which
\* holds values of its own
C16_Witness ==
    /\ last.op = "other"
    /\ other.held
    /\ Now # <<>>
    /\ OtherValues # <<>>
    /\ ~SameValues(Now, OtherValues)

\* C17 (the two representations agree): an orderable-value collection and a
\* key-only collection with the same key function, given the same add,
\* update, discard and remove calls, always hold the same values equally
\* often and have the same length, and for every value give the same
\* contains, the same count, and both succeed or both raise ValueError for
\* remove and for index without a window.
C17_SameAnswers ==
    (_ordered /\ other.held /\ ~other.ordered) =>
        /\ SameValues(Now, as_list(other))
        /\ _len = other.len
        /\ Len(Now) = Len(as_list(other))
        /\ \A value \in Values :
             /\ contains(Self, value) = contains(other, value)
             /\ count(Self, value) = count(other, value)
             /\ remove(Self, value).raised = remove(other, value).raised
             /\ index(Self, value, None, None).raised
                  = index(other, value, None, None).raised

\* both full, in several chunks, under the key function that gives distinct
\* values one key, and holding the same values in different orders
C17_Witness ==
    /\ _ordered
    /\ other.held
    /\ ~other.ordered
    /\ _len = MaxLen
    /\ Len(_lists) > 1
    /\ Len(other.lists) > 1
    /\ Now # as_list(other)
    /\ \E value \in Values : count(other, value) = Unchanged("none", 2)

====
